---- MODULE Spec2Model ----
(***************************************************************************)
(* Model of bot.py: the Telegram handler handle_excel, which reads an      *)
(* uploaded spreadsheet, applies the OTT override, filters eligible rows,  *)
(* counts two tier buckets and replies with an SLA report, and its inner   *)
(* function calc_sla_report.                                               *)
(*                                                                         *)
(* TLC strings are ASCII, so the Cyrillic literals of the source are       *)
(* transliterated; each definition names the literal it stands for.        *)
(***************************************************************************)
EXTENDS Integers, Sequences, FiniteSets, TLC

VARIABLES
    pc,               \* position of the handler callback: idle / dispatched / returned
    update,           \* the document message handed to handle_excel
    replies,          \* the reply_text calls of the running invocation, in order
    df,               \* local df of handle_excel
    df_platina,       \* local df_platina (rows)
    df_other,         \* local df_other (rows)
    total_platina, on_time_platina, sla_platina, buffer_platina, status_platina,
    total_other, on_time_other, sla_other, buffer_other, status_other,
    calc_args,        \* <<total, on_time>> of a direct call of calc_sla_report
    calc_ret          \* what that call returned

handler_vars == <<pc, update, replies, df, df_platina, df_other,
                  total_platina, on_time_platina, sla_platina, buffer_platina, status_platina,
                  total_other, on_time_other, sla_other, buffer_other, status_other>>
calc_vars == <<calc_args, calc_ret>>
vars == <<handler_vars, calc_vars>>

----------------------------------------------------------------------------
(* Bounds *)

\* longest table (number of data rows) the model uploads
MaxRows == 2
\* largest total passed to calc_sla_report directly
MaxTotal == 100

----------------------------------------------------------------------------
(* Python values.  A spreadsheet cell, and a local of the handler, is a    *)
(* number, a string, NaN (a blank cell) or not assigned yet.               *)

Num(n) == [kind |-> "num", num |-> n]
Str(s) == [kind |-> "str", str |-> s]
NaN == [kind |-> "nan"]
Unset == [kind |-> "unset"]
\* the placeholder "—" (em dash) of lines 87, 100, 105, 126, 135
Dash == Str("-")

\* Python/pandas `c == n` for an integer n: false for NaN and for strings
EqNum(c, n) == c.kind = "num" /\ c.num = n
\* pandas `c == s` for a string s
EqStr(c, s) == c.kind = "str" /\ c.str = s

----------------------------------------------------------------------------
(* File names are sequences of characters, so that lower(), endswith() and *)
(* `in` are computed rather than assumed.                                  *)

UpperChars == <<"D", "W", "H", "S", "L", "A", "X", "T">>
LowerChars == <<"d", "w", "h", "s", "l", "a", "x", "t">>

\* str.lower()
lower(s) ==
    [i \in 1..Len(s) |->
        IF \E k \in 1..Len(UpperChars) : UpperChars[k] = s[i]
        THEN LowerChars[CHOOSE k \in 1..Len(UpperChars) : UpperChars[k] = s[i]]
        ELSE s[i]]

\* str.endswith(suffix)
endswith(s, suffix) ==
    /\ Len(s) >= Len(suffix)
    /\ SubSeq(s, Len(s) - Len(suffix) + 1, Len(s)) = suffix

\* `sub in s`
contains(s, sub) ==
    \E i \in 1..(Len(s) - Len(sub) + 1) : SubSeq(s, i, i + Len(sub) - 1) = sub

dot_xlsx == <<".", "x", "l", "s", "x">>
dwh == <<"d", "w", "h">>
sla == <<"s", "l", "a">>

\* doc.file_name.lower().endswith('.xlsx')
is_xlsx(file_name) == endswith(lower(file_name), dot_xlsx)

\* the bug of a plain else for the second kind: every name without 'dwh' is
\* taken for an SLA file
file_kind_else_sla(file_name) ==
    IF contains(lower(file_name), dwh) THEN "dwh" ELSE "sla"

\* the if / elif / else on the file name
file_kind(file_name) ==
    IF contains(lower(file_name), dwh) THEN "dwh"
    ELSE IF contains(lower(file_name), sla) THEN "sla"
    ELSE "other"

FileNames ==
    { <<"d", "w", "h", ".", "x", "l", "s", "x">>,           \* dwh.xlsx
      <<"D", "W", "H", ".", "X", "L", "S", "X">>,           \* DWH.XLSX
      <<"S", "l", "a", ".", "x", "l", "s", "x">>,           \* Sla.xlsx
      <<"d", "a", "t", "a", ".", "x", "l", "s", "x">>,      \* data.xlsx
      <<"d", "w", "s", "l", ".", "x", "l", "s", "x">>,      \* dwsl.xlsx
      <<"d", "w", "h", ".", "x", "l", "s">>,                \* dwh.xls
      <<"s", "l", "a", ".", "x", "l", "s", "x", ".", "t", "x", "t">>,  \* sla.xlsx.txt
      <<"d", "a", "t", "a">> }                              \* data

\* the names under which row-level behaviour is explored
GoodNames ==
    { <<"d", "w", "h", ".", "x", "l", "s", "x">>,
      <<"S", "l", "a", ".", "x", "l", "s", "x">> }

----------------------------------------------------------------------------
(* Columns and cell literals *)

Col3LTP == "source_NTTM_DB[3LTP_Priznak]"   \* '"source_NTTM_DB"[3ЛТП_Признак]'
ColUroven == "Uroven"                       \* 'Уровень'
ColCE == "Isklyuchit CE"                    \* 'Исключить ЦЭ'
ColUsluga == "Isklyuchit po usluge"         \* 'Исключить по услуге'
ColTip == "Tip uslugi"                      \* 'Тип услуги'
ColNar == "Narushenie SLA"                  \* 'Нарушение SLA'
ColNarBez == "Narushenie SLA bez ozhidaniya klienta"
                                            \* 'Нарушение SLA без ожидания клиента'

required_cols == {Col3LTP, ColUroven, ColCE, ColUsluga, ColTip, ColNar, ColNarBez}

Platinovyj == "Platinovyj"          \* 'Платиновый'
Zolotoj == "Zolotoj"                \* 'Золотой'
Serebryanyj == "Serebryanyj"        \* 'Серебряный'
Bronzovyj == "Bronzovyj"            \* 'Бронзовый'
Bazovyj == "Bazovyj"                \* a level the handler does not know
BezPriznakaCE == "Bez priznaka CE"  \* 'Без признака ЦЭ'
RaschetnyeUslugi == "Raschetnye uslugi"   \* 'Расчетные услуги'
OTT == "OTT"                        \* 'ОТТ' (written with Cyrillic letters in the source)
other_levels == {Bronzovyj, Zolotoj, Serebryanyj}

Row(f, lvl, ce, usl, tip, nar, narbez) ==
    (Col3LTP :> f) @@ (ColUroven :> Str(lvl)) @@ (ColCE :> Str(ce)) @@
    (ColUsluga :> Str(usl)) @@ (ColTip :> Str(tip)) @@ (ColNar :> nar) @@
    (ColNarBez :> narbez)

Levels == {Platinovyj, Zolotoj, Serebryanyj, Bronzovyj, Bazovyj}
Violations == {Num(0), Num(1), Num(2), NaN, Str("x"), Str("0")}
NoWaits == {Num(0), Num(1), NaN}

\* rows that pass the eligibility filter, of every level
EligibleRows ==
    { Row(Num(1), lvl, BezPriznakaCE, RaschetnyeUslugi, "IPTV", nar, Num(1)) :
        lvl \in Levels, nar \in {Num(0), Num(1)} }
\* Platinum rows with every raw violation value; OTT rows with every value of
\* the no-wait flag
ViolationRows ==
    { Row(Num(1), Platinovyj, BezPriznakaCE, RaschetnyeUslugi, OTT, nar, nw) :
        nar \in {Num(0), Num(1), Num(2), NaN}, nw \in NoWaits }
    \cup
    { Row(Num(1), Platinovyj, BezPriznakaCE, RaschetnyeUslugi, "IPTV", nar, Num(1)) :
        nar \in Violations }
    \cup
    { Row(Num(1), Zolotoj, BezPriznakaCE, RaschetnyeUslugi, OTT, NaN, Num(0)),
      Row(Num(1), Zolotoj, BezPriznakaCE, RaschetnyeUslugi, OTT, Num(0), Num(1)) }
\* rows that fail exactly one condition of the eligibility filter
IneligibleRows ==
    { Row(f[1], f[4], f[2], f[3], "IPTV", Num(0), Num(0)) :
        f \in { <<Num(0), BezPriznakaCE, RaschetnyeUslugi, Platinovyj>>,
                <<Num(1), "CE", RaschetnyeUslugi, Platinovyj>>,
                <<Num(1), BezPriznakaCE, "Nerashetnye uslugi", Platinovyj>>,
                <<NaN, BezPriznakaCE, RaschetnyeUslugi, Zolotoj>> } }

DataRows == EligibleRows \cup ViolationRows \cup IneligibleRows

\* the few rows uploaded under every file name and column set
FlowRows ==
    { Row(Num(1), Platinovyj, BezPriznakaCE, RaschetnyeUslugi, "IPTV", Num(0), Num(1)),
      Row(Num(1), Zolotoj, BezPriznakaCE, RaschetnyeUslugi, OTT, Num(0), Num(1)),
      Row(Num(0), Platinovyj, BezPriznakaCE, RaschetnyeUslugi, OTT, Num(1), Num(0)),
      Row(Num(1), Bazovyj, BezPriznakaCE, RaschetnyeUslugi, "IPTV", NaN, Num(0)) }

SeqsUpTo(S, n) == UNION { [1..k -> S] : k \in 0..n }

Restrict(r, cols) == [c \in cols |-> r[c]]

\* a readable workbook: its header row (third row) and the rows below it
Table(cols, rows) ==
    [readable |-> TRUE, columns |-> cols,
     rows |-> [i \in 1..Len(rows) |-> Restrict(rows[i], cols)]]
\* a file pd.read_excel raises on
Garbage == [readable |-> FALSE, columns |-> {}, rows |-> <<>>]

ColumnSets == {required_cols} \cup { required_cols \ {c} : c \in required_cols }

Updates ==
    { [file_name |-> n, content |-> c] :
        n \in FileNames,
        c \in {Garbage} \cup
              { Table(cols, rows) : cols \in ColumnSets, rows \in SeqsUpTo(FlowRows, MaxRows) } }
    \cup
    { [file_name |-> n, content |-> Table(required_cols, rows)] :
        n \in GoodNames, rows \in SeqsUpTo(DataRows, MaxRows) }

NoUpdate == [file_name |-> <<>>, content |-> Garbage]
NoDf == [columns |-> {}, rows |-> <<>>, read |-> FALSE]

----------------------------------------------------------------------------
(* pandas operations used by the handler *)

\* pd.read_excel(file_bytes, header=2) on a readable workbook
read_excel(content) ==
    [columns |-> content.columns, rows |-> content.rows, read |-> TRUE]

\* all(col in df.columns for col in required_cols)
has_required_cols(d) == \A col \in required_cols : col \in d.columns

\* the bug of copying the no-wait flag as it is (lambda x: x)
ott_override_copy(d) ==
    [d EXCEPT !.rows =
        [i \in 1..Len(d.rows) |->
            IF EqStr(d.rows[i][ColTip], OTT)
            THEN [d.rows[i] EXCEPT ![ColNar] = d.rows[i][ColNarBez]]
            ELSE d.rows[i]]]

\* mask_ott = df["Тип услуги"] == "ОТТ";
\* df.loc[mask_ott, "Нарушение SLA"] =
\*     df.loc[mask_ott, "Нарушение SLA без ожидания клиента"].apply(lambda x: 1 if x == 1 else 0)
ott_override(d) ==
    [d EXCEPT !.rows =
        [i \in 1..Len(d.rows) |->
            IF EqStr(d.rows[i][ColTip], OTT)
            THEN [d.rows[i] EXCEPT ![ColNar] =
                     IF EqNum(d.rows[i][ColNarBez], 1) THEN Num(1) ELSE Num(0)]
            ELSE d.rows[i]]]

\* the body of the branch the file name selects (the else branch returns)
apply_file_kind(kind, d) ==
    IF kind = "dwh" THEN ott_override(d)
    ELSE IF kind = "sla" THEN ott_override(d)
    ELSE d

base_mask(r) ==
    /\ EqNum(r[Col3LTP], 1)
    /\ EqStr(r[ColCE], BezPriznakaCE)
    /\ EqStr(r[ColUsluga], RaschetnyeUslugi)

platina_mask(r) == base_mask(r) /\ EqStr(r[ColUroven], Platinovyj)

\* the bug of leaving base_mask out of the second bucket
other_mask_unfiltered(r) ==
    r[ColUroven].kind = "str" /\ r[ColUroven].str \in other_levels

other_mask(r) ==
    base_mask(r) /\ r[ColUroven].kind = "str" /\ r[ColUroven].str \in other_levels

\* what pd.to_numeric(..., errors='coerce') makes of a string
ParseNumber(s) ==
    IF s = "0" THEN Num(0)
    ELSE IF s = "1" THEN Num(1)
    ELSE IF s = "2" THEN Num(2)
    ELSE NaN

\* pd.to_numeric(cell, errors='coerce')
to_numeric(c) ==
    IF c.kind = "num" THEN c
    ELSE IF c.kind = "str" THEN ParseNumber(c.str)
    ELSE NaN

\* .fillna(v)
fillna(c, v) == IF c.kind = "nan" THEN Num(v) ELSE c

\* rows['Нарушение SLA'] = pd.to_numeric(rows['Нарушение SLA'], errors='coerce').fillna(1)
coerce_violation(rows) ==
    [i \in 1..Len(rows) |-> [rows[i] EXCEPT ![ColNar] = fillna(to_numeric(@), 1)]]

\* (rows['Нарушение SLA'] == 0).sum()
count_on_time(rows) == Cardinality({ i \in 1..Len(rows) : EqNum(rows[i][ColNar], 0) })

----------------------------------------------------------------------------
(* calc_sla_report *)

\* round(on_time / total * 100, 1), in tenths of a percent.  The quotient is
\* a float: away from a tie the nearest tenth is certain; at an exact tie
\* (fraction 0.05) the float error of on_time / total * 100 decides the side
\* (1/16 gives 6.2, 23/80 gives 28.7), so both neighbours are possible.
round_1(on_time, total) ==
    LET q == (on_time * 1000) \div total
        r == (on_time * 1000) % total
    IN  IF 2 * r < total THEN {q}
        ELSE IF 2 * r > total THEN {q + 1}
        ELSE {q, q + 1}

\* The double nearest to 0.87 is Mant / 2^53 with
\* Mant = 7836263351624663 = Mant2 * 2^40 + Mant1 * 2^20 + Mant0.
Mant2 == 7127
Mant1 == 41943
Mant0 == 41943
LimbBase == 2^20

RECURSIVE BitLen(_)
BitLen(n) == IF n = 0 THEN 0 ELSE 1 + BitLen(n \div 2)

\* the bug of truncating instead of rounding up: int(total * 0.87)
int_087(total) == (87 * total) \div 100

\* math.ceil(total * 0.87): the exact product total * Mant / 2^53 is rounded
\* to 53 significant bits (ties to even) and then rounded up to an integer.
\* The product is kept in limbs of 20 bits, top limb unnormalised.
ceil_087(total) ==
    LET p0 == total * Mant0
        c0 == p0 % LimbBase
        t1 == total * Mant1 + p0 \div LimbBase
        c1 == t1 % LimbBase
        t2 == total * Mant2 + t1 \div LimbBase
        int_part == t2 \div 2^13
        \* number of low bits the rounding to 53 bits drops
        s == IF BitLen(t2) > 13 THEN BitLen(t2) - 13 ELSE 0
        \* the fraction is at most half a unit in the last place: the float
        \* product is the integer int_part itself
        rounds_to_int ==
            /\ t2 % 2^13 = 0
            /\ c1 = 0
            /\ IF s = 0 THEN c0 = 0 ELSE c0 <= 2^(s - 1)
    IN  IF rounds_to_int THEN int_part ELSE int_part + 1

Status(text, n) == [kind |-> "status", text |-> text, tt |-> n]
VNorme == "V norme"                  \* "✅ В норме (+{buffer} ТТ)"
NizheNormativa == "Nizhe normativa"  \* "❌ Ниже норматива ({buffer} ТТ не хватает)"

\* calc_sla_report(total, on_time): the set of triples (sla_pct, buffer,
\* status) it can return (one, but for a tie in round_1)
calc_sla_report(total, on_time) ==
    IF total = 0 THEN { <<Dash, Dash, Dash>> }
    ELSE LET min_on_time == ceil_087(total)
             buffer == on_time - min_on_time
             status == IF buffer >= 0 THEN Status(VNorme, buffer)
                       ELSE Status(NizheNormativa, buffer)
         IN  { <<Num(sla_pct), Num(buffer), status>> : sla_pct \in round_1(on_time, total) }

----------------------------------------------------------------------------
(* handle_excel *)

MsgNotXlsx == [kind |-> "not_xlsx"]          \* "Пожалуйста, отправьте файл в формате .xlsx"
MsgUnreadable == [kind |-> "unreadable"]     \* "❌ Не удалось прочитать Excel-файл."
MsgMissingCols == [kind |-> "missing_cols"]  \* "❌ В файле отсутствуют необходимые столбцы."
MsgNaming == [kind |-> "naming"]             \* "ℹ️ Имя файла должно содержать 'dwh' или 'sla'."

\* the f-string assembled at the end of the handler
report(tp, op, sp, stp, to, oo, so, sto) ==
    [kind |-> "report",
     total_platina |-> tp, on_time_platina |-> op, sla_platina |-> sp, status_platina |-> stp,
     total_other |-> to, on_time_other |-> oo, sla_other |-> so, status_other |-> sto]

\* the bug of testing the file name before the columns
first_return_name_first(file_name, content) ==
    IF ~is_xlsx(file_name) THEN "not_xlsx"
    ELSE IF ~content.readable THEN "unreadable"
    ELSE IF file_kind(file_name) = "other" THEN "naming"
    ELSE IF ~has_required_cols(read_excel(content)) THEN "missing_cols"
    ELSE "ok"

\* the bug of reading the file before looking at its extension
first_return_read_first(file_name, content) ==
    IF ~content.readable THEN "unreadable"
    ELSE IF ~is_xlsx(file_name) THEN "not_xlsx"
    ELSE IF ~has_required_cols(read_excel(content)) THEN "missing_cols"
    ELSE IF file_kind(file_name) = "other" THEN "naming"
    ELSE "ok"

\* the point at which the handler leaves the checks: the first return taken,
\* or "ok" when it goes on to the report
first_return(file_name, content) ==
    IF ~is_xlsx(file_name) THEN "not_xlsx"
    ELSE IF ~content.readable THEN "unreadable"
    ELSE IF ~has_required_cols(read_excel(content)) THEN "missing_cols"
    ELSE IF file_kind(file_name) = "other" THEN "naming"
    ELSE "ok"

\* the bug of reporting an empty bucket as 100 % and within the norm
apply_bucket_empty_compliant(rows, total) ==
    IF total > 0
    THEN LET on_time == count_on_time(coerce_violation(rows))
         IN  { [rows |-> coerce_violation(rows), on_time |-> Num(on_time),
                sla |-> t[1], buffer |-> t[2], status |-> t[3]] :
                  t \in calc_sla_report(total, on_time) }
    ELSE { [rows |-> rows, on_time |-> Num(0), sla |-> Num(1000), buffer |-> Num(0),
            status |-> Status(VNorme, 0)] }

\* The two passes over one bucket: the first computes the rounded percentage
\* (or "—"), the second (# Применяем к ...) coerces the column again, counts
\* again and calls calc_sla_report; the values of the second pass are the
\* ones the report uses.  Yields the possible (rows, on_time, sla, buffer,
\* status).
apply_bucket(rows, total) ==
    IF total > 0
    THEN LET first_pass == coerce_violation(rows)
             second_pass == coerce_violation(first_pass)
             on_time == count_on_time(second_pass)
         IN  { [rows |-> second_pass, on_time |-> Num(on_time),
                sla |-> t[1], buffer |-> t[2], status |-> t[3]] :
                  t \in calc_sla_report(total, on_time) }
    ELSE { [rows |-> rows, on_time |-> Num(0), sla |-> Dash, buffer |-> Dash, status |-> Dash] }

bucket_vars == <<df_platina, df_other,
                 total_platina, on_time_platina, sla_platina, buffer_platina, status_platina,
                 total_other, on_time_other, sla_other, buffer_other, status_other>>

handle_excel ==
    /\ pc = "dispatched"
    /\ pc' = "returned"
    /\ UNCHANGED <<update, calc_vars>>
    /\ LET file_name == update.file_name
           content == update.content
           stop == first_return(file_name, content)
       IN
       \/ /\ stop = "not_xlsx"
          /\ replies' = Append(replies, MsgNotXlsx)
          /\ UNCHANGED <<df, bucket_vars>>
       \/ /\ stop = "unreadable"
          /\ replies' = Append(replies, MsgUnreadable)
          /\ UNCHANGED <<df, bucket_vars>>
       \/ /\ stop = "missing_cols"
          /\ df' = read_excel(content)
          /\ replies' = Append(replies, MsgMissingCols)
          /\ UNCHANGED bucket_vars
       \/ /\ stop = "naming"
          /\ df' = read_excel(content)
          /\ replies' = Append(replies, MsgNaming)
          /\ UNCHANGED bucket_vars
       \/ /\ stop = "ok"
          /\ LET d == apply_file_kind(file_kind(file_name), read_excel(content))
                 platina == SelectSeq(d.rows, platina_mask)
                 other == SelectSeq(d.rows, other_mask)
             IN  \E bp \in apply_bucket(platina, Len(platina)),
                    bo \in apply_bucket(other, Len(other)) :
                    /\ df' = d
                    /\ df_platina' = bp.rows
                    /\ total_platina' = Num(Len(platina))
                    /\ on_time_platina' = bp.on_time
                    /\ sla_platina' = bp.sla
                    /\ buffer_platina' = bp.buffer
                    /\ status_platina' = bp.status
                    /\ df_other' = bo.rows
                    /\ total_other' = Num(Len(other))
                    /\ on_time_other' = bo.on_time
                    /\ sla_other' = bo.sla
                    /\ buffer_other' = bo.buffer
                    /\ status_other' = bo.status
                    /\ replies' = Append(replies,
                           report(Num(Len(platina)), bp.on_time, bp.sla, bp.status,
                                  Num(Len(other)), bo.on_time, bo.sla, bo.status))

----------------------------------------------------------------------------
(* main: the application hands each document update to handle_excel and    *)
(* takes the next one when the handler has returned.                       *)

FrameEmpty ==
    /\ replies = <<>>
    /\ df = NoDf
    /\ df_platina = Unset /\ df_other = Unset
    /\ total_platina = Unset /\ on_time_platina = Unset /\ sla_platina = Unset
    /\ buffer_platina = Unset /\ status_platina = Unset
    /\ total_other = Unset /\ on_time_other = Unset /\ sla_other = Unset
    /\ buffer_other = Unset /\ status_other = Unset

\* an update with a document arrives and the handler is called with it
dispatch_update ==
    /\ pc = "idle"
    /\ pc' = "dispatched"
    /\ \E u \in Updates : update' = u
    /\ UNCHANGED <<replies, df, bucket_vars, calc_vars>>

\* the handler's coroutine is finished: its locals are gone
handler_done ==
    /\ pc = "returned"
    /\ pc' = "idle"
    /\ update' = NoUpdate
    /\ replies' = <<>>
    /\ df' = NoDf
    /\ df_platina' = Unset /\ df_other' = Unset
    /\ total_platina' = Unset /\ on_time_platina' = Unset /\ sla_platina' = Unset
    /\ buffer_platina' = Unset /\ status_platina' = Unset
    /\ total_other' = Unset /\ on_time_other' = Unset /\ sla_other' = Unset
    /\ buffer_other' = Unset /\ status_other' = Unset
    /\ UNCHANGED calc_vars

Init ==
    /\ pc = "idle"
    /\ update = NoUpdate
    /\ FrameEmpty
    /\ calc_args = <<0, 0>>
    /\ calc_ret = Unset

Next ==
    \/ dispatch_update
    \/ handle_excel
    \/ handler_done

Spec == Init /\ [][Next]_vars

----------------------------------------------------------------------------
(* calc_sla_report called on its own, for every total up to MaxTotal *)

InitCalc ==
    /\ pc = "idle"
    /\ update = NoUpdate
    /\ FrameEmpty
    /\ calc_args \in { <<total, on_time>> : total \in 0..MaxTotal, on_time \in 0..MaxTotal }
    /\ calc_args[2] <= calc_args[1]
    /\ calc_ret = Unset

call_calc_sla_report ==
    /\ calc_ret = Unset
    /\ calc_ret' \in calc_sla_report(calc_args[1], calc_args[2])
    /\ UNCHANGED <<calc_args, handler_vars>>

NextCalc == call_calc_sla_report

SpecCalc == InitCalc /\ [][NextCalc]_vars

----------------------------------------------------------------------------
(* Vocabulary of the properties below.  It is written from the statements  *)
(* being checked, not from the operators of the handler.                   *)

Returned == pc = "returned"
InputName == update.file_name
InputRows == update.content.rows
\* the upload is an .xlsx file that pd.read_excel can read: a dataset exists
DatasetRead == Returned /\ is_xlsx(InputName) /\ update.content.readable
AllColumnsPresent == required_cols \subseteq update.content.columns
NameHasMarker ==
    contains(lower(InputName), dwh) \/ contains(lower(InputName), sla)
ReportSent == \E i \in 1..Len(replies) : replies[i].kind = "report"
\* the handler got as far as counting the buckets
BucketsCounted == Returned /\ total_platina.kind = "num" /\ total_other.kind = "num"
NothingProcessed ==
    /\ df_platina = Unset /\ df_other = Unset
    /\ total_platina = Unset /\ on_time_platina = Unset /\ sla_platina = Unset
    /\ buffer_platina = Unset /\ status_platina = Unset
    /\ total_other = Unset /\ on_time_other = Unset /\ sla_other = Unset
    /\ buffer_other = Unset /\ status_other = Unset

\* eligibility as the specification words it
Eligible(r) ==
    /\ r[Col3LTP] = Num(1)
    /\ r[ColCE] = Str(BezPriznakaCE)
    /\ r[ColUsluga] = Str(RaschetnyeUslugi)
Count(rows, P(_)) == Cardinality({ i \in 1..Len(rows) : P(rows[i]) })

\* the target, in percent
TargetPct == 87
\* ceil(0.87 * total) in exact arithmetic
MinRequired(total) == (TargetPct * total + 99) \div 100
CalcDone == calc_ret # Unset
CalcTotal == calc_args[1]
CalcOnTime == calc_args[2]

----------------------------------------------------------------------------
(* calc_sla_report: status and surplus (checked under SpecCalc) *)

\* C9: for every bucket with total >= 1 and 0 <= on_time <= total, the status
\* is compliant exactly when on_time >= ceil(0.87 * total) and non-compliant
\* otherwise, and the surplus (buffer) is on_time - ceil(0.87 * total).
C9_StatusAndSurplus ==
    (CalcDone /\ CalcTotal >= 1) =>
        /\ calc_ret[2] = Num(CalcOnTime - MinRequired(CalcTotal))
        /\ calc_ret[3].kind = "status"
        /\ calc_ret[3].tt = CalcOnTime - MinRequired(CalcTotal)
        /\ (calc_ret[3].text = VNorme) <=> (CalcOnTime >= MinRequired(CalcTotal))
        /\ (calc_ret[3].text = NizheNormativa) <=> (CalcOnTime < MinRequired(CalcTotal))

\* total=100, on_time=80: min_required 87, surplus -7, non-compliant
C9_Witness ==
    /\ CalcDone
    /\ calc_args = <<100, 80>>
    /\ calc_ret[2] = Num(-7)
    /\ calc_ret[3] = Status(NizheNormativa, -7)

\* The count the status line reports as missing ("... ТТ не хватает") for a
\* non-compliant bucket.
ReportedNeed == 0 - calc_ret[3].tt

\* C1: for every non-compliant bucket (total >= 1, on_time < ceil(0.87 *
\* total)) the reported number of additional tickets needed is the least
\* k >= 0 with (on_time + k) / (total + k) >= 0.87: the inequality holds for
\* k = need and fails for k = need - 1.
C1_NeedIsMinimalGrowingBoth ==
    (CalcDone /\ CalcTotal >= 1 /\ CalcOnTime < MinRequired(CalcTotal)) =>
        /\ calc_ret[3].kind = "status"
        /\ ReportedNeed >= 0
        /\ 100 * (CalcOnTime + ReportedNeed) >= TargetPct * (CalcTotal + ReportedNeed)
        /\ ReportedNeed > 0 =>
               100 * (CalcOnTime + ReportedNeed - 1) < TargetPct * (CalcTotal + ReportedNeed - 1)

----------------------------------------------------------------------------
(* handle_excel: the checks and the reply (checked under Spec) *)

\* the reply the order of the checks calls for
ExpectedReplyKind ==
    IF ~endswith(lower(InputName), dot_xlsx) THEN "not_xlsx"
    ELSE IF ~update.content.readable THEN "unreadable"
    ELSE IF ~AllColumnsPresent THEN "missing_cols"
    ELSE IF ~NameHasMarker THEN "naming"
    ELSE "report"

C4_MissingColumnRejected ==
    (Returned /\ update.content.readable /\ ~AllColumnsPresent) =>
        /\ ~ReportSent
        /\ is_xlsx(InputName) =>
              /\ replies = <<MsgMissingCols>>
              /\ df = read_excel(update.content)
              /\ NothingProcessed

\* the level column is missing from a table with an OTT row, under a name
\* without 'dwh' or 'sla'
C4_Witness ==
    /\ DatasetRead /\ ~NameHasMarker
    /\ ColUroven \notin update.content.columns
    /\ \E i \in 1..Len(InputRows) : InputRows[i][ColTip] = Str(OTT)
    /\ replies = <<MsgMissingCols>>

\* C5: a report is produced only if the file name contains 'dwh' or 'sla',
\* case-insensitively; for every other name (dataset read, all columns
\* present) the handler replies with the naming message and does no
\* override, filtering, aggregation or report.
C5_ReportOnlyForDwhOrSla ==
    /\ (Returned /\ (ReportSent \/ BucketsCounted)) => NameHasMarker
    /\ (DatasetRead /\ AllColumnsPresent /\ ~NameHasMarker) =>
          /\ replies = <<MsgNaming>>
          /\ df = read_excel(update.content)
          /\ NothingProcessed

\* a report for an upper-case name: the test is case-insensitive
C5_Witness ==
    /\ Returned /\ ReportSent
    /\ InputName = <<"D", "W", "H", ".", "X", "L", "S", "X">>
    /\ Len(InputRows) > 0

----------------------------------------------------------------------------
(* handle_excel: override, filter and buckets (checked under Spec) *)

RecognizedLevels == {Str(Platinovyj), Str(Zolotoj), Str(Serebryanyj), Str(Bronzovyj)}
InPlatinum(r) == Eligible(r) /\ r[ColUroven] = Str(Platinovyj)
InOther(r) == Eligible(r) /\ r[ColUroven] \in {Str(Zolotoj), Str(Serebryanyj), Str(Bronzovyj)}
InSomeBucket(r) == Eligible(r) /\ r[ColUroven] \in RecognizedLevels

\* C6: every eligible record of level Platinum, Gold, Silver or Bronze is
\* counted in exactly one bucket (Platinum alone, the others in "other"),
\* every other record in neither: total_platina + total_other is the number
\* of eligible records of a recognized level.
C6_TierBucketPartition ==
    BucketsCounted =>
        /\ total_platina.num = Count(InputRows, InPlatinum)
        /\ total_other.num = Count(InputRows, InOther)
        /\ total_platina.num + total_other.num = Count(InputRows, InSomeBucket)
        /\ Len(df_platina) = total_platina.num
        /\ Len(df_other) = total_other.num
        /\ \A i \in 1..Len(df_platina) : df_platina[i][ColUroven] = Str(Platinovyj)
        /\ \A i \in 1..Len(df_other) : df_other[i][ColUroven] # Str(Platinovyj)

\* a Silver row is counted in the second bucket; the row of an unknown level
\* next to it, eligible too, is counted in neither
C6_Witness ==
    /\ BucketsCounted
    /\ total_platina = Num(0) /\ total_other = Num(1)
    /\ Len(InputRows) = 2
    /\ Count(InputRows, Eligible) = 2
    /\ \E i \in 1..2 : InputRows[i][ColUroven] = Str(Serebryanyj)
    /\ \E i \in 1..2 : InputRows[i][ColUroven] = Str(Bazovyj)

\* the value the override must give an OTT row
OverrideValue(r) == IF r[ColNarBez] = Num(1) THEN Num(1) ELSE Num(0)

\* the violation value of a record once the override has been applied
Effective(r) == IF r[ColTip] = Str(OTT) THEN OverrideValue(r) ELSE r[ColNar]

\* C7: for every record with service type OTT the violation value used in
\* counting is 1 if the no-wait flag is 1 and 0 otherwise, whatever the
\* original value (blank included); every other record keeps its value.
C7_OttOverride ==
    BucketsCounted =>
        /\ Len(df.rows) = Len(InputRows)
        /\ \A i \in 1..Len(InputRows) :
              df.rows[i][ColNar] = Effective(InputRows[i])
        /\ \A i \in 1..Len(df_platina) :
              df_platina[i][ColTip] = Str(OTT) =>
                  df_platina[i][ColNar] = OverrideValue(df_platina[i])
        /\ \A i \in 1..Len(df_other) :
              df_other[i][ColTip] = Str(OTT) =>
                  df_other[i][ColNar] = OverrideValue(df_other[i])
        /\ on_time_platina.num =
              Count(InputRows, LAMBDA r : InPlatinum(r) /\ to_numeric(Effective(r)) = Num(0))
        /\ on_time_other.num =
              Count(InputRows, LAMBDA r : InOther(r) /\ to_numeric(Effective(r)) = Num(0))

\* an OTT row with a blank violation and a blank no-wait flag is counted on
\* time, next to a row that is not OTT and keeps its violation
C7_Witness ==
    /\ BucketsCounted
    /\ \E i \in 1..Len(InputRows) :
          /\ InputRows[i][ColTip] = Str(OTT)
          /\ InputRows[i][ColNar] = NaN /\ InputRows[i][ColNarBez] = NaN
          /\ df.rows[i][ColNar] = Num(0)
    /\ \E i \in 1..Len(InputRows) :
          /\ InputRows[i][ColTip] # Str(OTT)
          /\ InputRows[i][ColNar] = Num(1)
    /\ total_platina = Num(2) /\ on_time_platina = Num(1)

\* C8: after normalization, the violation value of every record that enters
\* a bucket count is exactly 0 or 1: a blank or unparseable value becomes 1,
\* and no other numeric value survives.
C8_ViolationIsZeroOrOne ==
    BucketsCounted =>
        /\ \A i \in 1..Len(df_platina) : df_platina[i][ColNar] \in {Num(0), Num(1)}
        /\ \A i \in 1..Len(df_other) : df_other[i][ColNar] \in {Num(0), Num(1)}

ReportShows(tp, op, sp, stp, to, oo, so, sto) ==
    replies = << [kind |-> "report",
                  total_platina |-> tp, on_time_platina |-> op, sla_platina |-> sp,
                  status_platina |-> stp,
                  total_other |-> to, on_time_other |-> oo, sla_other |-> so,
                  status_other |-> sto] >>

C3_EmptyEligibleSetNoReport ==
    (DatasetRead /\ AllColumnsPresent /\ NameHasMarker
        /\ Count(InputRows, Eligible) = 0) =>
        /\ ~ReportSent
        /\ Len(replies) = 1

====
